---- MODULE Spec2Model ----
(***************************************************************************)
(* Operator-algebra engine of pycsou (src/pycsou/abc/operator.py).         *)
(*                                                                         *)
(* The state is a heap of operator instances (class, shape, instance       *)
(* __dict__) together with the outcome of the last call.  Every method of  *)
(* the source is an operator that maps a heap to an outcome: either the    *)
(* raised exception, or the grown heap and the reference returned.  Bound  *)
(* methods and closures are kept symbolically: a binding names the code    *)
(* of the closure and the objects it captured.                             *)
(***************************************************************************)
EXTENDS Integers, Sequences, FiniteSets, TLC

VARIABLES heap, calls, last

vars == <<heap, calls, last>>

(***************************************************************************)
(* Bounds.                                                                 *)
(***************************************************************************)
\* largest codomain / domain size handed to a constructor
MaxDim == 2
\* objects alive at once (operands, temporaries and results)
MaxOps == 4
\* calls made on the operators built
MaxCalls == 1

(***************************************************************************)
(* Program constants.                                                      *)
(***************************************************************************)
\* operands of a call: the binary operators take self and other
Arity == 2
\* shape entry None: the domain-agnostic size
NoneDim == 0
\* np.infty, the "unknown" Lipschitz estimate
Infty == 1000

(***************************************************************************)
(* Class hierarchy.                                                        *)
(***************************************************************************)
_property_list ==
    {"apply", "_lipschitz", "jacobian", "_diff_lipschitz", "single_valued",
     "gradient", "prox", "adjoint"}

_base_operators ==
    {"Map", "DiffMap", "Func", "DiffFunc", "ProxFunc", "LinOp", "LinFunc"}

\* the class statements: direct bases of every class of the module
Bases(c) ==
    CASE c = "Property"      -> {}
      [] c = "SingledValued" -> {"Property"}
      [] c = "Apply"         -> {"Property"}
      [] c = "Differential"  -> {"Property"}
      [] c = "Gradient"      -> {"Differential"}
      [] c = "Adjoint"       -> {"Property"}
      [] c = "Proximal"      -> {"Property"}
      [] c = "Map"           -> {"Apply"}
      [] c = "DiffMap"       -> {"Map", "Differential"}
      [] c = "Func"          -> {"Map", "SingledValued"}
      [] c = "ProxFunc"      -> {"Func", "Proximal"}
      [] c = "DiffFunc"      -> {"Func", "Gradient"}
      [] c = "LinOp"         -> {"DiffMap", "Adjoint"}
      [] c = "LinFunc"       -> {"DiffFunc", "LinOp"}
      [] c = "SquareOp"      -> {"LinOp"}
      [] c = "NormalOp"      -> {"SquareOp"}
      [] c = "SelfAdjointOp" -> {"NormalOp"}
      [] c = "UnitOp"        -> {"NormalOp"}
      [] c = "ProjOp"        -> {"SquareOp"}
      [] c = "OrthProjOp"    -> {"ProjOp", "SelfAdjointOp"}
      [] c = "PosDefOp"      -> {"SelfAdjointOp"}

\* names of the capability vocabulary that a class body defines itself
OwnMethods(c) ==
    CASE c = "SingledValued" -> {"single_valued"}
      [] c = "Apply"         -> {"apply"}
      [] c = "Differential"  -> {"jacobian"}
      [] c = "Gradient"      -> {"jacobian", "gradient"}
      [] c = "Adjoint"       -> {"adjoint"}
      [] c = "Proximal"      -> {"prox"}
      [] c = "LinOp"         -> {"jacobian"}
      [] c = "SelfAdjointOp" -> {"adjoint"}
      [] OTHER               -> {}

\* every class statement of the module
AllClasses ==
    {"Property", "SingledValued", "Apply", "Differential", "Gradient", "Adjoint",
     "Proximal", "Map", "DiffMap", "Func", "ProxFunc", "DiffFunc", "LinOp",
     "LinFunc", "SquareOp", "NormalOp", "SelfAdjointOp", "UnitOp", "ProjOp",
     "OrthProjOp", "PosDefOp"}

RECURSIVE Ancestors(_)
\* the classes of c.__mro__ (object left out)
Ancestors(c) == {c} \cup UNION {Ancestors(b) : b \in Bases(c)}

\* c.__mro__ as a set, for every class
Mro == [c \in AllClasses |-> Ancestors(c)]

\* isinstance(obj, d) for an obj whose class is c
IsSubclass(c, d) == d \in Mro[c]

\* dir(cls), restricted to the names the module can ask for
Dir(c) == UNION {OwnMethods(a) : a \in Mro[c]}

\* Property.properties for every class: dir(cls) & _property_list
PropertiesOf == [c \in AllClasses |-> Dir(c) \cap _property_list]

properties(c) == PropertiesOf[c]

\* set(prop) for a query given as one string: the characters of the string
CharsOf(s) ==
    CASE s = "apply"         -> {"a", "p", "l", "y"}
      [] s = "jacobian"      -> {"j", "a", "c", "o", "b", "i", "n"}
      [] s = "single_valued" -> {"s", "i", "n", "g", "l", "e", "_", "v", "a", "u", "d"}
      [] s = "gradient"      -> {"g", "r", "a", "d", "i", "e", "n", "t"}
      [] s = "prox"          -> {"p", "r", "o", "x"}
      [] s = "adjoint"       -> {"a", "d", "j", "o", "i", "n", "t"}
      [] s = "_lipschitz"    -> {"_", "l", "i", "p", "s", "c", "h", "t", "z"}
      [] s = "_diff_lipschitz" ->
           {"_", "d", "i", "f", "l", "p", "s", "c", "h", "t", "z"}
      [] OTHER               -> {s}

\* Property.has: set(prop) <= cls.properties(); q is a set of names (a
\* tuple query) or one string (isStr), which set() splits into characters
has(c, q, isStr) ==
    (IF isStr THEN CharsOf(q) ELSE q) \subseteq properties(c)

(***************************************************************************)
(* Shapes (pycsou.util).                                                   *)
(***************************************************************************)
Max2(a, b) == IF a >= b THEN a ELSE b

\* sum: range-broadcastable codomains, equal-or-agnostic domains
SumCompatible(s, t) ==
    /\ (s[1] = t[1] \/ s[1] = 1 \/ t[1] = 1)
    /\ (s[2] = t[2] \/ s[2] = NoneDim \/ t[2] = NoneDim)

infer_sum_shape(s, t) ==
    <<Max2(s[1], t[1]), IF s[2] = NoneDim THEN t[2] ELSE s[2]>>

\* composition: left domain equals right codomain, or left domain agnostic
CompositionCompatible(s, t) == s[2] = t[1] \/ s[2] = NoneDim

infer_composition_shape(s, t) == <<s[1], t[2]>>

(***************************************************************************)
(* Outcomes of a call.                                                     *)
(***************************************************************************)
Ok(h, r) == [exc |-> "none", heap |-> h, ref |-> r]

Raise(e) == [exc |-> e, heap |-> <<>>, ref |-> 0]

(***************************************************************************)
(* Values of an instance __dict__.                                         *)
(***************************************************************************)
\* a float attribute
Num(v) == [form |-> "num", cap |-> "", l |-> v, r |-> 0]

\* a closure or bound method: form names its code, cap the attribute it
\* looks up, l and r the captured objects (self, other)
Closure(f, c, a, b) == [form |-> f, cap |-> c, l |-> a, r |-> b]

\* arithmetic on Lipschitz estimates
LipAdd(x, y) == IF x = Infty \/ y = Infty THEN Infty ELSE x + y

LipMul(x, y) == IF x = Infty \/ y = Infty THEN Infty ELSE x * y

\* getattr(obj, name): the instance __dict__ first, then the class; a bound
\* class method is the closure "method" over the object
HasAttr(h, ref, name) == name \in DOMAIN h[ref].d \/ name \in Dir(h[ref].cls)

GetAttr(h, ref, name) ==
    IF name \in DOMAIN h[ref].d THEN h[ref].d[name]
    ELSE Closure("method", name, ref, 0)

\* setattr(obj, name, value)
SetAttr(h, ref, name, v) ==
    [h EXCEPT ![ref].d = [n \in (DOMAIN h[ref].d) \cup {name} |->
                             IF n = name THEN v ELSE h[ref].d[n]]]

(***************************************************************************)
(* Constructors.                                                           *)
(***************************************************************************)
\* the instance __dict__ the __init__ chain of class c leaves behind
InitDict(c) ==
    LET lip  == IF IsSubclass(c, "UnitOp") \/ IsSubclass(c, "OrthProjOp")
                THEN 1 ELSE Infty
        base == [n \in {"_lipschitz"} |-> Num(lip)]
    IN  IF IsSubclass(c, "LinOp")
        THEN [n \in {"_lipschitz", "_diff_lipschitz"} |->
                 IF n = "_lipschitz" THEN Num(lip) ELSE Num(0)]
        ELSE IF IsSubclass(c, "DiffMap")
        THEN [n \in {"_lipschitz", "_diff_lipschitz"} |->
                 IF n = "_lipschitz" THEN Num(lip) ELSE Num(Infty)]
        ELSE base

\* c(shape): the __init__ chain of class c on a shape of length 2
New(h, c, shape) ==
    IF IsSubclass(c, "SquareOp") /\ shape[1] # shape[2]
    THEN Raise("ValueError")
    ELSE IF IsSubclass(c, "Func") /\ shape[1] = NoneDim
    THEN Raise("TypeError")
    ELSE IF IsSubclass(c, "Func") /\ shape[1] > 1
    THEN Raise("ValueError")
    ELSE IF shape[1] = NoneDim
    THEN Raise("ValueError")
    ELSE Ok(Append(h, [cls |-> c, shape |-> shape, d |-> InitDict(c)]),
            Len(h) + 1)

(***************************************************************************)
(* Map.specialize, Map._squeeze and the squeeze overrides.                 *)
(***************************************************************************)
\* the loop of Map.specialize over self.properties(): every property is
\* copied with getattr, except jacobian when cast_to.has("single_valued"),
\* which becomes a gradient closure over self.  (If both were to write
\* "gradient" the later write would win; has() on a string never holds for
\* a class of the module, so that branch does not run.)
SpecializedDict(h, self, cast_to, d0) ==
    LET ps    == properties(h[self].cls)
        synth == "jacobian" \in ps /\ has(cast_to, "single_valued", TRUE)
        names == (ps \ (IF synth THEN {"jacobian"} ELSE {}))
                 \cup (IF synth THEN {"gradient"} ELSE {})
    IN  [n \in (DOMAIN d0) \cup names |->
            IF n = "gradient" /\ synth THEN Closure("grad_from_jac", "jacobian", self, 0)
            ELSE IF n \in names THEN GetAttr(h, self, n)
            ELSE d0[n]]

\* the tail of Map.specialize: obj is the outcome of cast_to(self.shape),
\* whose instance receives the properties of self
SpecializeInto(h, self, cast_to, obj) ==
    IF obj.exc # "none" THEN obj
    ELSE Ok([obj.heap EXCEPT ![obj.ref].d =
                SpecializedDict(h, self, cast_to, obj.heap[obj.ref].d)],
            obj.ref)

\* Map.specialize(self, cast_to)
specialize(h, self, cast_to) ==
    IF cast_to = h[self].cls THEN Ok(h, self)
    ELSE IF /\ properties(cast_to) \subseteq properties(h[self].cls)
            /\ properties(cast_to) # properties(h[self].cls)
    THEN Raise("ValueError")
    ELSE SpecializeInto(h, self, cast_to, New(h, cast_to, h[self].shape))

\* the class whose squeeze() the method resolution order of c finds, as the
\* out argument it hands to _squeeze: LinOp.squeeze for every LinOp
\* (LinFunc included), DiffMap.squeeze for DiffMap, Map.squeeze otherwise
\* (Func, DiffFunc and ProxFunc define none and inherit Map.squeeze)
SqueezeOut(c) ==
    IF IsSubclass(c, "LinOp") THEN "LinFunc"
    ELSE IF IsSubclass(c, "DiffMap") THEN "DiffFunc"
    ELSE "Func"

\* Map._squeeze(self, out)
_squeeze(h, self, out) ==
    IF h[self].shape[1] = 1 THEN specialize(h, self, out) ELSE Ok(h, self)

\* obj.squeeze()
squeeze(h, self) == _squeeze(h, self, SqueezeOut(h[self].cls))

(***************************************************************************)
(* Kind resolution shared by __add__ and __mul__.                          *)
(***************************************************************************)
\* for Op in _base_operators: if Op.properties() == shared_props: break
\* The scan stops on a match; without one Op is left on the last class the
\* frozenset happened to yield, which may be any of them.
ResolveKind(shared_props) ==
    LET hits == {Op \in _base_operators : properties(Op) = shared_props}
    IN  IF hits # {} THEN hits ELSE _base_operators

\* the classes on which the test of the scan holds
ScanMatches(shared_props) ==
    {Op \in _base_operators : properties(Op) = shared_props}

\* the pruning after the scan
PrunedProps(Op, shared_props) ==
    (IF Op \in {"LinOp", "DiffFunc", "LinFunc"}
     THEN shared_props \ {"jacobian"} ELSE shared_props) \ {"single_valued"}

(***************************************************************************)
(* Property.__add__.                                                       *)
(***************************************************************************)
\* properties shared by the addends, prox discarded
AddSharedProps(h, self, other) ==
    (properties(h[self].cls) \cap properties(h[other].cls)) \ {"prox"}

\* the loop binding the sum's properties.  composite_method reads the loop
\* variable prop when it is called, that is after the loop has ended, so
\* every composite method looks up lastProp, the name the iteration over
\* the set ended on.
AddBindings(h, self, other, props, lastProp, d0) ==
    [n \in (DOMAIN d0) \cup props |->
        IF n \in props
        THEN IF n \in {"_lispchitz", "_diff_lipschitz"}
             THEN Num(LipAdd(GetAttr(h, self, n).l, GetAttr(h, other, n).l))
             ELSE Closure("composite_method", lastProp, self, other)
        ELSE d0[n]]

\* the tail of Property.__add__: out_op is the outcome of Op(out_shape),
\* whose instance receives the bindings and is squeezed
AddBind(h, self, other, props, lastProp, out_op) ==
    IF out_op.exc # "none" THEN out_op
    ELSE squeeze([out_op.heap EXCEPT ![out_op.ref].d =
                     AddBindings(h, self, other, props, lastProp,
                                 out_op.heap[out_op.ref].d)],
                 out_op.ref)

\* Property.__add__(self, other) for an operator other; Op is the class the
\* scan ended on and lastProp the last property of the binding loop
Property__add__(h, self, other, Op, lastProp) ==
    IF ~ SumCompatible(h[self].shape, h[other].shape) THEN Raise("ValueError")
    ELSE AddBind(h, self, other, PrunedProps(Op, AddSharedProps(h, self, other)),
                 lastProp,
                 New(h, Op, infer_sum_shape(h[self].shape, h[other].shape)))

\* the branch of ProxFunc.__add__ for a LinFunc other: f is the outcome of
\* f.specialize(cast_to=ProxFunc), which receives the prox and is squeezed
AddProx(f, self, other) ==
    IF f.exc # "none" THEN f
    ELSE squeeze(SetAttr(f.heap, f.ref, "prox",
                         Closure("prox_add", "prox", self, other)),
                 f.ref)

\* the body of ProxFunc.__add__ after f = Property.__add__(self, other)
ProxFunc__add__f(f, self, other) ==
    IF f.exc # "none" THEN f
    ELSE IF IsSubclass(f.heap[other].cls, "LinFunc")
    THEN AddProx(specialize(f.heap, f.ref, "ProxFunc"), self, other)
    ELSE squeeze(f.heap, f.ref)

\* ProxFunc.__add__(self, other)
ProxFunc__add__(h, self, other, Op, lastProp) ==
    ProxFunc__add__f(Property__add__(h, self, other, Op, lastProp), self, other)

\* LinFunc.__add__(self, other): ProxFunc.__add__(other, self)
LinFunc__add__(h, self, other, Op, lastProp) ==
    ProxFunc__add__(h, other, self, Op, lastProp)

\* self + other: the __add__ that type(self) resolves to
Add__(h, self, other, Op, lastProp) ==
    IF IsSubclass(h[self].cls, "LinFunc")
    THEN LinFunc__add__(h, self, other, Op, lastProp)
    ELSE IF IsSubclass(h[self].cls, "ProxFunc")
    THEN ProxFunc__add__(h, self, other, Op, lastProp)
    ELSE Property__add__(h, self, other, Op, lastProp)

(***************************************************************************)
(* Property.__mul__ (operator form).                                       *)
(***************************************************************************)
\* the grant to a scalar-valued left factor without single_valued
MulSharedPropsGradientOnly(h, self, other) ==
    LET shared == (properties(h[self].cls) \cap properties(h[other].cls)) \ {"prox"}
    IN  IF h[self].shape[1] = 1 /\ "jacobian" \in shared
        THEN shared \cup {"gradient"}
        ELSE shared

\* properties shared by the factors, prox discarded; a scalar-valued left
\* factor sharing jacobian is granted gradient and single_valued
MulSharedProps(h, self, other) ==
    LET shared == (properties(h[self].cls) \cap properties(h[other].cls)) \ {"prox"}
    IN  IF h[self].shape[1] = 1 /\ "jacobian" \in shared
        THEN shared \cup {"gradient", "single_valued"}
        ELSE shared

\* the _diff_lipschitz branch of the binding loop
MulDiffLipschitz(h, self, other) ==
    IF IsSubclass(h[self].cls, "LinOp")
    THEN LipMul(GetAttr(h, self, "_lipschitz").l, GetAttr(h, other, "_diff_lipschitz").l)
    ELSE IF IsSubclass(h[other].cls, "LinOp")
    THEN LipMul(GetAttr(h, self, "_diff_lipschitz").l,
                LipMul(GetAttr(h, other, "_lipschitz").l, GetAttr(h, other, "_lipschitz").l))
    ELSE Infty

\* the binding loop with the adjoint composed in the order of apply
MulBindingSameOrder(h, self, other, prop) ==
    CASE prop = "apply"           -> Closure("composite_apply", "apply", self, other)
      [] prop = "_lipschitz"      -> Num(LipMul(GetAttr(h, self, "_lipschitz").l,
                                                GetAttr(h, other, "_lipschitz").l))
      [] prop = "_diff_lipschitz" -> Num(MulDiffLipschitz(h, self, other))
      [] prop = "gradient"        -> Closure("composite_gradient", "gradient", self, other)
      [] prop = "jacobian"        -> Closure("composite_jacobian", "jacobian", self, other)
      [] prop = "adjoint"         -> Closure("composite_adjoint", "adjoint", other, self)

\* one iteration of the binding loop: the value bound for prop
MulBinding(h, self, other, prop) ==
    CASE prop = "apply"           -> Closure("composite_apply", "apply", self, other)
      [] prop = "_lipschitz"      -> Num(LipMul(GetAttr(h, self, "_lipschitz").l,
                                                GetAttr(h, other, "_lipschitz").l))
      [] prop = "_diff_lipschitz" -> Num(MulDiffLipschitz(h, self, other))
      [] prop = "gradient"        -> Closure("composite_gradient", "gradient", self, other)
      [] prop = "jacobian"        -> Closure("composite_jacobian", "jacobian", self, other)
      [] prop = "adjoint"         -> Closure("composite_adjoint", "adjoint", self, other)

\* the binding loop of __mul__: names outside the six branches bind nothing
MulBindings(h, self, other, props, d0) ==
    LET bound == props \cap {"apply", "_lipschitz", "_diff_lipschitz",
                             "gradient", "jacobian", "adjoint"}
    IN  [n \in (DOMAIN d0) \cup bound |->
            IF n \in bound THEN MulBinding(h, self, other, n) ELSE d0[n]]

\* the tail of Property.__mul__: out_op is the outcome of Op(out_shape),
\* whose instance receives the bindings and is squeezed
MulBind(h, self, other, props, out_op) ==
    IF out_op.exc # "none" THEN out_op
    ELSE squeeze([out_op.heap EXCEPT ![out_op.ref].d =
                     MulBindings(h, self, other, props, out_op.heap[out_op.ref].d)],
                 out_op.ref)

\* Property.__mul__(self, other) for an operator other; Op is the class the
\* scan ended on
Property__mul__(h, self, other, Op) ==
    IF ~ CompositionCompatible(h[self].shape, h[other].shape) THEN Raise("ValueError")
    ELSE MulBind(h, self, other, PrunedProps(Op, MulSharedProps(h, self, other)),
                 New(h, Op, infer_composition_shape(h[self].shape, h[other].shape)))

\* the UnitOp branch of ProxFunc.__mul__: g is the outcome of
\* f.specialize(cast_to=ProxFunc), whose value is dropped (only its
\* exception matters); ref is the object that receives the prox
MulProx(f, g, ref, self, other) ==
    IF g.exc # "none" THEN g
    ELSE squeeze(SetAttr(f.heap, ref, "prox",
                         Closure("prox_unit", "prox", self, other)),
                 f.ref)

\* the body of ProxFunc.__mul__ with the prox of the product attached to
\* the left factor
ProxFunc__mul__fOnSelf(f, self, other) ==
    IF f.exc # "none" THEN f
    ELSE IF IsSubclass(f.heap[other].cls, "UnitOp")
    THEN MulProx(f, specialize(f.heap, f.ref, "ProxFunc"), self, self, other)
    ELSE Raise("NameError")

\* the body of ProxFunc.__mul__ after f = Property.__mul__(self, other):
\* f.prox is assigned; the name HomothetyOp of the elif is not bound in
\* the module, so evaluating it raises NameError
ProxFunc__mul__f(f, self, other) ==
    IF f.exc # "none" THEN f
    ELSE IF IsSubclass(f.heap[other].cls, "UnitOp")
    THEN MulProx(f, specialize(f.heap, f.ref, "ProxFunc"), f.ref, self, other)
    ELSE Raise("NameError")

\* ProxFunc.__mul__ with the prox of the product attached to the left factor
ProxFunc__mul__OnSelf(h, self, other, Op) ==
    ProxFunc__mul__fOnSelf(Property__mul__(h, self, other, Op), self, other)

\* ProxFunc.__mul__(self, other)
ProxFunc__mul__(h, self, other, Op) ==
    ProxFunc__mul__f(Property__mul__(h, self, other, Op), self, other)

\* self * other for an operator other: the __mul__ type(self) resolves to
Mul__(h, self, other, Op) ==
    IF IsSubclass(h[self].cls, "ProxFunc")
    THEN ProxFunc__mul__(h, self, other, Op)
    ELSE Property__mul__(h, self, other, Op)

(***************************************************************************)
(* Outcomes of a call whose kind scan or binding loop may end on several   *)
(* names: the set of the outcomes the iteration orders can produce.        *)
(***************************************************************************)
\* self + other for operators
AddOutcomes(h, self, other) ==
    LET s      == IF IsSubclass(h[self].cls, "LinFunc") THEN other ELSE self
        o      == IF IsSubclass(h[self].cls, "LinFunc") THEN self ELSE other
        shared == AddSharedProps(h, s, o)
    IN  UNION {{Add__(h, self, other, Op, lastProp) :
                   lastProp \in PrunedProps(Op, shared)} :
               Op \in ResolveKind(shared)}

\* self * other for operators
MulOutcomes(h, self, other) ==
    {Mul__(h, self, other, Op) : Op \in ResolveKind(MulSharedProps(h, self, other))}

(***************************************************************************)
(* Operands that are not operators.                                        *)
(***************************************************************************)
\* Property.__add__(self, other) when one of the two is not a Map: the
\* isinstance test rejects a foreign other; a foreign self passes it (other
\* is the Map) and the read of self.shape fails
Property__add__foreign(foreignIsOther) ==
    IF foreignIsOther THEN Raise("NotImplementedError") ELSE Raise("AttributeError")

\* ProxFunc.__add__(self, other): its first statement is Property.__add__
ProxFunc__add__foreign(foreignIsOther) == Property__add__foreign(foreignIsOther)

\* LinFunc.__add__(self, other): ProxFunc.__add__(other, self), which makes
\* the foreign value the self of Property.__add__
LinFunc__add__foreign == ProxFunc__add__foreign(FALSE)

\* self + v for a value v that is not an operator (a real number included)
AddForeign__(h, self) ==
    IF IsSubclass(h[self].cls, "LinFunc") THEN LinFunc__add__foreign
    ELSE IF IsSubclass(h[self].cls, "ProxFunc") THEN ProxFunc__add__foreign(TRUE)
    ELSE Property__add__foreign(TRUE)

\* self * v for a value v that is neither a real number nor an operator:
\* the elif of Property.__mul__, which ProxFunc.__mul__ calls first
MulForeign__(h, self) == Raise("NotImplementedError")

(***************************************************************************)
(* Collaborators of pycsou.linop.base.                                     *)
(***************************************************************************)
\* HomothetyOp(cst, dim): the scaling linear operator on a domain of size
\* dim; _cst holds the factor
HomothetyOp(h, dim) ==
    LET c == New(h, "LinOp", <<dim, dim>>)
    IN  IF c.exc # "none" THEN c
        ELSE Ok(SetAttr(c.heap, c.ref, "_cst", Closure("cst", "", 0, 0)), c.ref)

\* IdentityOperator(shape): the identity operator of the given shape
IdentityOperator(h, shape) ==
    LET c == New(h, "LinOp", shape)
    IN  IF c.exc # "none" THEN c
        ELSE Ok(SetAttr(c.heap, c.ref, "_identity", Closure("identity", "", 0, 0)), c.ref)

(***************************************************************************)
(* Scalar form of *, unary -, -, / and argscale.                           *)
(***************************************************************************)
\* hmap.__mul__(self) for the outcome hmap of HomothetyOp(other, dim)
HomothetyMul(hmap, self) ==
    IF hmap.exc # "none" THEN {hmap}
    ELSE {Property__mul__(hmap.heap, hmap.ref, self, Op) :
             Op \in ResolveKind(MulSharedProps(hmap.heap, hmap.ref, self))}

\* Property.__mul__(self, other) for a real other:
\* HomothetyOp(other, dim=self.shape[0]).__mul__(self)
Property__mul__real(h, self) == HomothetyMul(HomothetyOp(h, h[self].shape[1]), self)

\* ProxFunc.__mul__(self, other) for a real other: other is no UnitOp, and
\* the elif reads the unbound name HomothetyOp
ProxFunc__mul__real(h, self) ==
    {IF f.exc # "none" THEN f ELSE Raise("NameError") : f \in Property__mul__real(h, self)}

\* self * r and r * self (__rmul__) for a real r
MulReal__(h, self) ==
    IF IsSubclass(h[self].cls, "ProxFunc") THEN ProxFunc__mul__real(h, self)
    ELSE Property__mul__real(h, self)

\* Property.__neg__: self.__mul__(-1)
Neg__(h, self) == MulReal__(h, self)

\* Property.__sub__: self.__add__(other.__neg__())
Sub__(h, self, other) ==
    UNION {IF n.exc # "none" THEN {n} ELSE AddOutcomes(n.heap, self, n.ref) :
           n \in Neg__(h, other)}

\* the divisors handed to /: a nonzero real, zero, a value that is no real
Divisors == {"real", "zero", "str"}

\* Property.__truediv__(self, scalar): 1 / scalar divides by zero before
\* __mul__ is called
TrueDiv__(h, self, scalar) ==
    IF scalar = "str" THEN {Raise("NotImplementedError")}
    ELSE IF scalar = "zero" THEN {Raise("ZeroDivisionError")}
    ELSE MulReal__(h, self)

\* self.__mul__(hmap) for the outcome hmap of HomothetyOp(scalar, dim)
MulHomothety(self, hmap) ==
    IF hmap.exc # "none" THEN {hmap} ELSE MulOutcomes(hmap.heap, self, hmap.ref)

\* Property.argscale(self, scalar): self.__mul__(HomothetyOp(scalar,
\* dim=self.shape[1]))
argscale(h, self, isReal) ==
    IF ~ isReal THEN {Raise("NotImplementedError")}
    ELSE MulHomothety(self, HomothetyOp(h, h[self].shape[2]))

(***************************************************************************)
(* Property.__pow__ and ProjOp.__pow__.                                    *)
(***************************************************************************)
\* a power handed to **: its Python type and, for a number, its value
Power(t, n) == [type |-> t, n |-> n]

\* power == 0 as Python evaluates it: 0 and 0.0 are equal to 0, a str is not
IsZero(power) == power.type \in {"int", "float"} /\ power.n = 0

RECURSIVE PowLoop(_, _, _)
\* exp_map after k iterations of: exp_map = self.__mul__(exp_map), starting
\* from exp_map = self; an exception ends the loop
PowLoop(h, self, k) ==
    IF k = 0 THEN {Ok(h, self)}
    ELSE UNION {IF e.exc # "none" THEN {e} ELSE MulOutcomes(e.heap, self, e.ref) :
                e \in PowLoop(h, self, k - 1)}

\* the loop run once more than range(1, power) asks for
Property__pow__OneMore(h, self, power) ==
    IF power.type # "int" THEN {Raise("NotImplementedError")}
    ELSE IF power.n = 0 THEN {IdentityOperator(h, h[self].shape)}
    ELSE PowLoop(h, self, power.n)

\* Property.__pow__(self, power)
Property__pow__(h, self, power) ==
    IF power.type # "int" THEN {Raise("NotImplementedError")}
    ELSE IF power.n = 0 THEN {IdentityOperator(h, h[self].shape)}
    ELSE PowLoop(h, self, IF power.n >= 1 THEN power.n - 1 ELSE 0)

\* ProjOp without its override: the __pow__ it would inherit
ProjOp__pow__Inherited(h, self, power) == Property__pow__(h, self, power)

\* ProjOp.__pow__(self, power): no test of the type of power
ProjOp__pow__(h, self, power) ==
    IF IsZero(power) THEN {IdentityOperator(h, h[self].shape)} ELSE {Ok(h, self)}

\* self ** power: the __pow__ that type(self) resolves to
Pow__(h, self, power) ==
    IF IsSubclass(h[self].cls, "ProjOp") THEN ProjOp__pow__(h, self, power)
    ELSE Property__pow__(h, self, power)

(***************************************************************************)
(* Property.argshift.                                                      *)
(***************************************************************************)
\* the class argshift instantiates for the result
ArgshiftClass(c) ==
    IF IsSubclass(c, "LinFunc") THEN "DiffFunc"
    ELSE IF IsSubclass(c, "LinOp") THEN "DiffMap"
    ELSE c

\* the binding loop of argshift over out_op.properties().  argshifted_method
\* reads the loop variable prop when it is called, so every shifted method
\* looks up lastProp, the name the iteration ended on.
ArgshiftBindings(h, self, props, lastProp, d0) ==
    [n \in (DOMAIN d0) \cup props |->
        IF n \in props
        THEN IF n \in {"_lispchitz", "_diff_lipschitz"} THEN GetAttr(h, self, n)
             ELSE IF n = "prox" THEN Closure("argshift_prox", "prox", self, 0)
             ELSE Closure("argshifted_method", lastProp, self, 0)
        ELSE d0[n]]

\* the tail of argshift: out_op is the outcome of the constructor call,
\* whose instance receives the bindings and is squeezed
ArgshiftBind(h, self, props, lastProp, out_op) ==
    IF out_op.exc # "none" THEN out_op
    ELSE squeeze([out_op.heap EXCEPT ![out_op.ref].d =
                     ArgshiftBindings(h, self, props, lastProp,
                                      out_op.heap[out_op.ref].d)],
                 out_op.ref)

\* Property.argshift(self, arr) for arr with arr.shape[-1] = n; isArray is
\* false for a value without copy(); lastProp is the last property of the
\* binding loop
argshift(h, self, isArray, n, lastProp) ==
    IF ~ isArray THEN Raise("ValueError")
    ELSE IF ~ (h[self].shape[2] = NoneDim \/ h[self].shape[2] = n)
    THEN Raise("ValueError")
    ELSE ArgshiftBind(h, self, properties(ArgshiftClass(h[self].cls)), lastProp,
                      New(h, ArgshiftClass(h[self].cls), <<h[self].shape[1], n>>))

(***************************************************************************)
(* Calling a bound capability.  The result is the term the call computes:  *)
(* a method a class defines itself is left uninterpreted (the call of that *)
(* method on that object), a closure unfolds into the calls its body makes.*)
(***************************************************************************)
Term(op, obj, cap, args) == [op |-> op, obj |-> obj, cap |-> cap, args |-> args]

\* the argument named n
Var(n) == Term("var", 0, n, <<>>)

RECURSIVE Invoke(_, _, _, _)
\* getattr(obj, cap)(*args)
Invoke(h, ref, cap, args) ==
    IF ~ HasAttr(h, ref, cap) THEN Term("AttributeError", ref, cap, <<>>)
    ELSE LET v == GetAttr(h, ref, cap)
         IN  CASE v.form = "method" ->
                    Term("call", v.l, v.cap, args)
               [] v.form = "num" ->
                    Term("TypeError", ref, cap, <<>>)
               [] v.form = "composite_method" ->
                    Term("+", 0, "", <<Invoke(h, v.l, v.cap, args),
                                       Invoke(h, v.r, v.cap, args)>>)
               [] v.form = "composite_apply" ->
                    Invoke(h, v.l, "apply", <<Invoke(h, v.r, "apply", args)>>)
               [] v.form = "composite_adjoint" ->
                    Invoke(h, v.r, "adjoint", <<Invoke(h, v.l, "adjoint", args)>>)
               [] v.form = "composite_gradient" ->
                    Term("adjoint", 0, "",
                         <<Invoke(h, v.r, "jacobian", args),
                           Invoke(h, v.l, "gradient", <<Invoke(h, v.r, "apply", args)>>)>>)
               [] v.form = "composite_jacobian" ->
                    Term("*", 0, "",
                         <<Invoke(h, v.l, "jacobian", <<Invoke(h, v.r, "apply", args)>>),
                           Invoke(h, v.r, "jacobian", args)>>)
               [] v.form = "grad_from_jac" ->
                    Term("reshape", 0, "",
                         <<Term("asarray", 0, "", <<Invoke(h, v.l, "jacobian", args)>>)>>)
               [] v.form = "prox_add" ->
                    Invoke(h, v.l, "prox",
                           <<Term("-", 0, "",
                                  <<args[1],
                                    Term("*", 0, "", <<args[2], Term("asarray", v.r, "", <<>>)>>)>>),
                             args[2]>>)
               [] v.form = "prox_unit" ->
                    Invoke(h, v.r, "adjoint",
                           <<Invoke(h, v.l, "prox",
                                    <<Invoke(h, v.r, "apply", <<args[1]>>), args[2]>>)>>)
               [] v.form = "argshifted_method" ->
                    Invoke(h, v.l, v.cap, <<Term("+", 0, "", <<args[1], Var("arr")>>)>>)
               [] v.form = "argshift_prox" ->
                    Term("-", 0, "",
                         <<Invoke(h, v.l, "prox",
                                  <<Term("+", 0, "", <<args[1], Var("arr")>>), args[2]>>),
                           Var("arr")>>)
               [] OTHER ->
                    Term("TypeError", ref, cap, <<>>)

(***************************************************************************)
(* The state machine: a caller that builds operators and combines them.    *)
(***************************************************************************)
\* classes the caller instantiates
LeafClasses == _base_operators \cup {"UnitOp", "ProjOp"}

Refs == 1 .. Len(heap)

NoCall == [op |-> "init", a |-> 0, b |-> 0, arg |-> "", exc |-> "none", ref |-> 0]

\* record the outcome of a call; an exception leaves the heap as it was
Return(op, a, b, arg, out) ==
    /\ out.exc = "none" => Len(out.heap) <= MaxOps
    /\ calls' = IF op = "new" THEN calls ELSE calls + 1
    /\ heap' = IF out.exc = "none" THEN out.heap ELSE heap
    /\ last' = [op |-> op, a |-> a, b |-> b, arg |-> arg,
                exc |-> out.exc, ref |-> out.ref]

Init ==
    /\ heap = <<>>
    /\ calls = 0
    /\ last = NoCall

\* K(shape): the caller builds the operands of the call to come
Construct ==
    /\ Len(heap) < Arity
    /\ calls = 0
    /\ \E c \in LeafClasses, n \in 0 .. MaxDim, k \in 0 .. MaxDim :
          Return("new", 0, 0, c, New(heap, c, <<n, k>>))

\* A + B
Add ==
    /\ calls < MaxCalls
    /\ \E a \in Refs, b \in Refs :
       LET self  == IF IsSubclass(heap[a].cls, "LinFunc") THEN b ELSE a
           other == IF IsSubclass(heap[a].cls, "LinFunc") THEN a ELSE b
           shared == AddSharedProps(heap, self, other)
       IN  \E Op \in ResolveKind(shared) :
              \E lastProp \in PrunedProps(Op, shared) :
                 Return("add", a, b, "", Add__(heap, a, b, Op, lastProp))

\* A * B
Mul ==
    /\ calls < MaxCalls
    /\ \E a \in Refs, b \in Refs :
       \E Op \in ResolveKind(MulSharedProps(heap, a, b)) :
          Return("mul", a, b, "", Mul__(heap, a, b, Op))

\* A.specialize(cast_to)
Specialize ==
    /\ calls < MaxCalls
    /\ \E a \in Refs, cast_to \in LeafClasses :
       Return("specialize", a, 0, cast_to, specialize(heap, a, cast_to))

\* A.squeeze()
Squeeze ==
    /\ calls < MaxCalls
    /\ \E a \in Refs : Return("squeeze", a, 0, "", squeeze(heap, a))

Next == Construct \/ Add \/ Mul \/ Specialize \/ Squeeze

Spec == Init /\ [][Next]_vars

(***************************************************************************)
(* The caller of the combinators: +, *, **, unary -, -, /, argshift and    *)
(* argscale, with operators, real numbers and foreign values as operands.  *)
(***************************************************************************)
\* the largest int handed to **
MaxPow == 2

\* the powers handed to **: ints, floats and a str
Powers ==
    {Power(t, n) : t \in {"int", "float"}, n \in 0 .. MaxPow} \cup {Power("str", 0)}

\* the values handed to + and * that are not operators
ForeignTypes == {"str", "float"}

\* The caller builds one expression: its first call takes every operator
\* built so far, a later call takes the operator the previous call
\* returned, and an exception ends the run.  (A call on other operands acts
\* as it does as a first call: no call changes an operator it does not
\* take, see C13.)
Proceeds == calls = 0 \/ (last.exc = "none" /\ last.ref # 0)

Due == IF calls = 0 THEN 1 .. Len(heap) ELSE {last.ref}

\* the operand of a call that takes one operator: the only one due
DueAlone == {a \in Due : Due = {a}}

\* A + B as a step of the expression
AddExpr ==
    /\ calls < MaxCalls /\ Proceeds
    /\ \E a \in Refs, b \in Refs :
          /\ Due \subseteq {a, b}
          /\ \E out \in AddOutcomes(heap, a, b) : Return("add", a, b, "", out)

\* A * B as a step of the expression
MulExpr ==
    /\ calls < MaxCalls /\ Proceeds
    /\ \E a \in Refs, b \in Refs :
          /\ Due \subseteq {a, b}
          /\ \E out \in MulOutcomes(heap, a, b) : Return("mul", a, b, "", out)

\* A + v for a value v that is not an operator
AddForeign ==
    /\ calls < MaxCalls /\ Proceeds
    /\ \E a \in DueAlone, v \in ForeignTypes :
          Return("add_foreign", a, 0, v, AddForeign__(heap, a))

\* A * v for a value v that is neither a real number nor an operator
MulForeign ==
    /\ calls < MaxCalls /\ Proceeds
    /\ \E a \in DueAlone : Return("mul_foreign", a, 0, "str", MulForeign__(heap, a))

\* A * r and r * A for a real number r
MulReal ==
    /\ calls < MaxCalls /\ Proceeds
    /\ \E a \in DueAlone : \E out \in MulReal__(heap, a) :
          Return("mul_real", a, 0, "", out)

\* -A
Neg ==
    /\ calls < MaxCalls /\ Proceeds
    /\ \E a \in DueAlone : \E out \in Neg__(heap, a) : Return("neg", a, 0, "", out)

\* A - B
Sub ==
    /\ calls < MaxCalls /\ Proceeds
    /\ \E a \in Refs, b \in Refs :
          /\ Due \subseteq {a, b}
          /\ \E out \in Sub__(heap, a, b) : Return("sub", a, b, "", out)

\* A / s
TrueDiv ==
    /\ calls < MaxCalls /\ Proceeds
    /\ \E a \in DueAlone, s \in Divisors : \E out \in TrueDiv__(heap, a, s) :
          Return("truediv", a, 0, s, out)

\* A.argscale(s)
ArgScale ==
    /\ calls < MaxCalls /\ Proceeds
    /\ \E a \in DueAlone, isReal \in BOOLEAN : \E out \in argscale(heap, a, isReal) :
          Return("argscale", a, 0, IF isReal THEN "real" ELSE "str", out)

\* A.argshift(arr)
ArgShift ==
    /\ calls < MaxCalls /\ Proceeds
    /\ \E a \in DueAlone, isArray \in BOOLEAN, n \in 1 .. MaxDim :
       \E lastProp \in properties(ArgshiftClass(heap[a].cls)) :
          Return("argshift", a, 0, [isArray |-> isArray, n |-> n],
                 argshift(heap, a, isArray, n, lastProp))

\* A ** power
Pow ==
    /\ calls < MaxCalls /\ Proceeds
    /\ \E a \in DueAlone, power \in Powers : \E out \in Pow__(heap, a, power) :
          Return("pow", a, 0, power, out)

NextCombinators ==
    \/ Construct \/ AddExpr \/ MulExpr \/ AddForeign \/ MulForeign \/ MulReal
    \/ Neg \/ Sub \/ TrueDiv \/ ArgScale \/ ArgShift \/ Pow

SpecCombinators == Init /\ [][NextCombinators]_vars

(***************************************************************************)
(* The caller of the class query has().                                    *)
(***************************************************************************)
\* the operator classes: Map and its subclasses
OperatorClasses == {c \in AllClasses : IsSubclass(c, "Map")}

\* names a tuple query holds at most
MaxQuery == 2

\* the tuple queries, as the set of the names they hold
TupleQueries == {q \in SUBSET _property_list : Cardinality(q) <= MaxQuery}

\* K.has(prop) for a tuple of names or for one name given as a str
HasQuery ==
    /\ calls < MaxCalls
    /\ \E c \in OperatorClasses, isStr \in BOOLEAN :
       \E q \in IF isStr THEN _property_list ELSE TupleQueries :
          /\ last' = [op |-> "has", a |-> 0, b |-> 0,
                      arg |-> [cls |-> c, q |-> q, isStr |-> isStr,
                               out |-> has(c, q, isStr)],
                      exc |-> "none", ref |-> 0]
          /\ calls' = calls + 1
          /\ heap' = heap

SpecHas == Init /\ [][HasQuery]_vars

(***************************************************************************)
(* LinOp.lipschitz and its overrides, and their caller.                    *)
(***************************************************************************)
\* the largest singular value the SVD backend reports
MaxSvd == 2
\* lipschitz() calls made on the operators built
MaxLipCalls == 2

\* the outcome of a lipschitz() call: the exception raised, or the heap it
\* leaves and the value returned; svd tells whether svdvals was invoked
LipOutcome(e, h, v, svd) == [exc |-> e, heap |-> h, val |-> v, svd |-> svd]

\* LinOp.svdvals(k=1, which="LM"): the backend's svds on the scipy view of
\* the operator returns the largest singular value, or raises
svdvals ==
    {[exc |-> "none", val |-> v] : v \in 1 .. MaxSvd}
        \cup {[exc |-> "ValueError", val |-> 0]}

\* the assignment of LinOp.lipschitz: sv is the outcome of self.svdvals
StoreSvd(h, self, sv) ==
    IF sv.exc # "none" THEN LipOutcome(sv.exc, h, 0, TRUE)
    ELSE LipOutcome("none", SetAttr(h, self, "_lipschitz", Num(sv.val)), sv.val, TRUE)

\* LinOp.lipschitz with the test of the stored estimate left out
LinOp__lipschitzUncached(h, self, recompute, sv) == StoreSvd(h, self, sv)

\* LinOp.lipschitz(self, recompute): sv is the outcome svdvals has if it is
\* invoked
LinOp__lipschitz(h, self, recompute, sv) ==
    IF recompute \/ GetAttr(h, self, "_lipschitz").l = Infty
    THEN StoreSvd(h, self, sv)
    ELSE LipOutcome("none", h, GetAttr(h, self, "_lipschitz").l, FALSE)

\* UnitOp.lipschitz(self, **kwargs)
UnitOp__lipschitz(h, self) ==
    LipOutcome("none", h, GetAttr(h, self, "_lipschitz").l, FALSE)

\* OrthProjOp.lipschitz(self, **kwargs)
OrthProjOp__lipschitz(h, self) ==
    LipOutcome("none", h, GetAttr(h, self, "_lipschitz").l, FALSE)

\* A.lipschitz(recompute=recompute) for a LinOp A: the lipschitz that
\* type(A) resolves to
Lipschitz__(h, self, recompute, sv) ==
    IF IsSubclass(h[self].cls, "UnitOp") THEN UnitOp__lipschitz(h, self)
    ELSE IF IsSubclass(h[self].cls, "OrthProjOp") THEN OrthProjOp__lipschitz(h, self)
    ELSE LinOp__lipschitz(h, self, recompute, sv)

\* LinOp and its subclasses
LinOpClasses == {c \in AllClasses : IsSubclass(c, "LinOp")}

\* K(shape) for a linear kind K: the caller builds the operators it will
\* ask for their Lipschitz constant
ConstructLinOp ==
    /\ Len(heap) < Arity
    /\ calls = 0
    /\ \E c \in LinOpClasses, n \in 0 .. MaxDim, k \in 0 .. MaxDim :
          Return("new", 0, 0, c, New(heap, c, <<n, k>>))

\* record the outcome of A.lipschitz(recompute=recompute)
ReturnLipschitz(a, recompute, out) ==
    /\ calls' = calls + 1
    /\ heap' = out.heap
    /\ last' = [op |-> "lipschitz", a |-> a, b |-> 0,
                arg |-> [recompute |-> recompute, val |-> out.val, svd |-> out.svd],
                exc |-> out.exc, ref |-> 0]

\* A.lipschitz(recompute=recompute)
Lipschitz ==
    /\ calls < MaxLipCalls
    /\ \E a \in Refs, recompute \in BOOLEAN, sv \in svdvals :
          ReturnLipschitz(a, recompute, Lipschitz__(heap, a, recompute, sv))

NextLipschitz == ConstructLinOp \/ Lipschitz

SpecLipschitz == Init /\ [][NextLipschitz]_vars

(***************************************************************************)
(* The published closure tables (docstrings of __add__ and __mul__).       *)
(***************************************************************************)
\* position of a base kind in the rows and columns of the tables
KindRank(k) ==
    CASE k = "Map" -> 1 [] k = "DiffMap" -> 2 [] k = "Func" -> 3
      [] k = "DiffFunc" -> 4 [] k = "ProxFunc" -> 5 [] k = "LinOp" -> 6
      [] k = "LinFunc" -> 7

\* the upper triangle of the addition table
AddTable(k1, k2) ==
    CASE k1 = "Map" -> "Map"
      [] k1 = "DiffMap" ->
           (CASE k2 = "DiffMap" -> "DiffMap" [] k2 = "Func" -> "Map"
              [] k2 = "DiffFunc" -> "DiffMap" [] k2 = "ProxFunc" -> "Map"
              [] k2 = "LinOp" -> "DiffMap" [] k2 = "LinFunc" -> "DiffMap")
      [] k1 = "Func" ->
           (CASE k2 = "Func" -> "Func" [] k2 = "DiffFunc" -> "Func"
              [] k2 = "ProxFunc" -> "Func" [] k2 = "LinOp" -> "Map"
              [] k2 = "LinFunc" -> "Func")
      [] k1 = "DiffFunc" ->
           (CASE k2 = "DiffFunc" -> "DiffFunc" [] k2 = "ProxFunc" -> "Func"
              [] k2 = "LinOp" -> "DiffMap" [] k2 = "LinFunc" -> "DiffFunc")
      [] k1 = "ProxFunc" ->
           (CASE k2 = "ProxFunc" -> "Func" [] k2 = "LinOp" -> "Map"
              [] k2 = "LinFunc" -> "ProxFunc")
      [] k1 = "LinOp" -> "LinOp"
      [] k1 = "LinFunc" -> "LinFunc"

\* the multiplication table, row k1 (left factor), column k2
MulTable(k1, k2) ==
    CASE k1 = "Map" -> "Map"
      [] k1 = "DiffMap" ->
           (IF k2 \in {"Map", "Func", "ProxFunc"} THEN "Map" ELSE "DiffMap")
      [] k1 = "Func" -> "Func"
      [] k1 = "DiffFunc" ->
           (IF k2 \in {"Map", "Func", "ProxFunc"} THEN "Func" ELSE "DiffFunc")
      [] k1 = "ProxFunc" -> "Func"
      [] k1 = "LinOp" ->
           (CASE k2 \in {"Map", "Func", "ProxFunc"} -> "Map"
              [] k2 \in {"DiffMap", "DiffFunc"} -> "DiffMap"
              [] k2 \in {"LinOp", "LinFunc"} -> "LinOp")
      [] k1 = "LinFunc" ->
           (CASE k2 = "Map" -> "LinFunc"
              [] k2 \in {"DiffMap", "DiffFunc"} -> "DiffFunc"
              [] k2 \in {"Func", "ProxFunc"} -> "Func"
              [] k2 \in {"LinOp", "LinFunc"} -> "LinFunc")

(***************************************************************************)
(* Properties.                                                             *)
(***************************************************************************)
\* the last call returned an operator
Returned == last.exc = "none" /\ last.ref # 0

\* operands of the last call whose class is one of the seven base kinds, a
\* Map, DiffMap or LinOp among them with codomain size > 1
BaseOperand(r) ==
    /\ heap[r].cls \in _base_operators
    /\ heap[r].cls \in {"Map", "DiffMap", "LinOp"} => heap[r].shape[1] > 1

\* C1: a sum of two base kinds listed in the upper triangle of the addition
\* table, with sum-compatible shapes, returns an operator of the kind the
\* table gives.
C1_AddTableHolds ==
    ( /\ last.op = "add"
      /\ BaseOperand(last.a) /\ BaseOperand(last.b)
      /\ KindRank(heap[last.a].cls) <= KindRank(heap[last.b].cls)
      /\ SumCompatible(heap[last.a].shape, heap[last.b].shape) )
    => ( /\ Returned
         /\ heap[last.ref].cls = AddTable(heap[last.a].cls, heap[last.b].cls) )

\* C2: a composition of two base kinds with composition-compatible shapes
\* returns an operator of the kind the multiplication table gives.
C2_MulTableHolds ==
    ( /\ last.op = "mul"
      /\ BaseOperand(last.a)
      /\ heap[last.b].cls \in _base_operators
      /\ CompositionCompatible(heap[last.a].shape, heap[last.b].shape) )
    => ( /\ Returned
         /\ heap[last.ref].cls = MulTable(heap[last.a].cls, heap[last.b].cls) )

\* the ProxFunc and the LinFunc of a sum of one of each, in either order
SumProxFunc == IF heap[last.a].cls = "ProxFunc" THEN last.a ELSE last.b

SumLinFunc == IF heap[last.a].cls = "ProxFunc" THEN last.b ELSE last.a

\* C3: f + l and l + f, for a ProxFunc f and a LinFunc l of sum-compatible
\* shapes, return a ProxFunc whose prox at (x, tau) is
\* f.prox(x - tau * l.asarray(), tau).
C3_ProxFuncPlusLinFunc ==
    ( /\ last.op = "add"
      /\ {heap[last.a].cls, heap[last.b].cls} = {"ProxFunc", "LinFunc"}
      /\ SumCompatible(heap[last.a].shape, heap[last.b].shape) )
    => ( /\ Returned
         /\ heap[last.ref].cls = "ProxFunc"
         /\ Invoke(heap, last.ref, "prox", <<Var("x"), Var("tau")>>)
              = Invoke(heap, SumProxFunc, "prox",
                       <<Term("-", 0, "",
                              <<Var("x"),
                                Term("*", 0, "",
                                     <<Var("tau"), Term("asarray", SumLinFunc, "", <<>>)>>)>>),
                         Var("tau")>>) )

\* C4: f * U, for a ProxFunc f and a UnitOp U of composition-compatible
\* shapes, returns an operator of kind ProxFunc (prox among its
\* properties()) with prox(x, tau) = U.adjoint(f.prox(U.apply(x), tau)).
C4_ProxFuncTimesUnitOp ==
    ( /\ last.op = "mul"
      /\ heap[last.a].cls = "ProxFunc"
      /\ heap[last.b].cls = "UnitOp"
      /\ CompositionCompatible(heap[last.a].shape, heap[last.b].shape) )
    => ( /\ Returned
         /\ "prox" \in properties(heap[last.ref].cls)
         /\ Invoke(heap, last.ref, "prox", <<Var("x"), Var("tau")>>)
              = Invoke(heap, last.b, "adjoint",
                       <<Invoke(heap, last.a, "prox",
                                <<Invoke(heap, last.b, "apply", <<Var("x")>>),
                                  Var("tau")>>)>>) )

\* the capabilities a sum binds as composite methods
SumCapabilities ==
    {c \in {"apply", "jacobian", "gradient", "adjoint"} :
        /\ c \in DOMAIN heap[last.ref].d
        /\ heap[last.ref].d[c].form = "composite_method"}

\* C5: every capability c retained on a sum A + B evaluates capability c
\* itself of A and of B at the argument and adds the two results.
C5_SumEvaluatesOwnCapability ==
    (last.op = "add" /\ Returned)
    => \A c \in SumCapabilities :
          Invoke(heap, last.ref, c, <<Var("x")>>)
            = Term("+", 0, "",
                   <<Invoke(heap, heap[last.ref].d[c].l, c, <<Var("x")>>),
                     Invoke(heap, heap[last.ref].d[c].r, c, <<Var("x")>>)>>)

\* the stored estimate name of object r, Infty when it has no such attribute
Stored(r, name) ==
    IF name \in DOMAIN heap[r].d THEN heap[r].d[name].l ELSE Infty

\* both operands of the last call store a finite estimate under name
FiniteOperands(name) ==
    /\ name \in DOMAIN heap[last.a].d /\ Stored(last.a, name) # Infty
    /\ name \in DOMAIN heap[last.b].d /\ Stored(last.b, name) # Infty

\* C6: the sum of two operators with finite stored Lipschitz estimates
\* stores the sum of the two estimates, and likewise for _diff_lipschitz
\* when the result is differentiable.
C6_SumLipschitz ==
    (last.op = "add" /\ Returned)
    => ( /\ FiniteOperands("_lipschitz")
            => Stored(last.ref, "_lipschitz")
                 = Stored(last.a, "_lipschitz") + Stored(last.b, "_lipschitz")
         /\ ( FiniteOperands("_diff_lipschitz")
              /\ "_diff_lipschitz" \in DOMAIN heap[last.ref].d )
            => Stored(last.ref, "_diff_lipschitz")
                 = Stored(last.a, "_diff_lipschitz") + Stored(last.b, "_diff_lipschitz") )

\* C7: the composition of two operators with finite stored Lipschitz
\* estimates stores the product of the two estimates.
C7_ProductLipschitz ==
    (last.op = "mul" /\ Returned /\ FiniteOperands("_lipschitz"))
    => Stored(last.ref, "_lipschitz")
         = Stored(last.a, "_lipschitz") * Stored(last.b, "_lipschitz")

\* both factors of the last call have the Adjoint capability
BothAdjoint ==
    /\ "adjoint" \in properties(heap[last.a].cls)
    /\ "adjoint" \in properties(heap[last.b].cls)

\* C8: a composition A * B carries a composite adjoint binding exactly when
\* both A and B have the Adjoint capability; then its adjoint at y is
\* B.adjoint(A.adjoint(y)), and its apply at x is A.apply(B.apply(x)).
C8_CompositionAdjoint ==
    (last.op = "mul" /\ Returned)
    => ( /\ ("adjoint" \in DOMAIN heap[last.ref].d) <=> BothAdjoint
         /\ BothAdjoint
            => Invoke(heap, last.ref, "adjoint", <<Var("y")>>)
                 = Invoke(heap, last.b, "adjoint",
                          <<Invoke(heap, last.a, "adjoint", <<Var("y")>>)>>)
         /\ Invoke(heap, last.ref, "apply", <<Var("x")>>)
              = Invoke(heap, last.a, "apply",
                       <<Invoke(heap, last.b, "apply", <<Var("x")>>)>>) )

\* a composition of two distinct linear operators has returned with its
\* adjoint bound
C8_Witness ==
    /\ last.op = "mul" /\ Returned /\ BothAdjoint
    /\ last.a # last.b
    /\ heap[last.ref].cls = "LinOp"
    /\ "adjoint" \in DOMAIN heap[last.ref].d

\* C9: specialize(A, K2), for base kinds K1 of A and K2, raises ValueError
\* exactly when the properties of K1 are not a subset of the properties of
\* K2.  (A of codomain size 1, so that every constructor accepts its shape.)
C9_SpecializeGuard ==
    ( /\ last.op = "specialize"
      /\ heap[last.a].cls \in _base_operators
      /\ last.arg \in _base_operators
      /\ heap[last.a].shape[1] = 1 )
    => ( (last.exc = "ValueError")
         <=> ~ (properties(heap[last.a].cls) \subseteq properties(last.arg)) )

\* C10: squeeze returns on every operator of a base kind, and squeezing
\* its result again returns that same operator.
C10_SqueezeTotalIdempotent ==
    (last.op = "squeeze" /\ heap[last.a].cls \in _base_operators)
    => ( /\ Returned
         /\ squeeze(heap, last.ref) = Ok(heap, last.ref) )

(***************************************************************************)
(* Properties of the combinators.                                          *)
(***************************************************************************)
\* the calls that are combinators
CombinatorOps ==
    {"add", "mul", "mul_real", "neg", "sub", "truediv", "argscale", "argshift", "pow"}

\* the last call was a combinator and returned an operator
CombinatorReturned == last.op \in CombinatorOps /\ Returned

\* the operator returned is the instance the identity collaborator built
IsIdentity(r) == "_identity" \in DOMAIN heap[r].d

\* C11: an operator returned by a combinator (the instance the identity
\* collaborator builds for ** 0 left aside) with codomain size 1 is of a
\* kind that has single_valued among its properties.
C11_CodomainOneIsSingleValued ==
    (CombinatorReturned /\ ~ IsIdentity(last.ref) /\ heap[last.ref].shape[1] = 1)
    => "single_valued" \in properties(heap[last.ref].cls)

\* the step is a combinator call that returns an operator
CombinatorStep ==
    /\ calls' = calls + 1
    /\ last'.op \in CombinatorOps
    /\ last'.exc = "none" /\ last'.ref # 0

\* the step returns an instance created during the call
ReturnsNew == last'.ref \notin 1 .. Len(heap)

\* the ** calls whose code returns self: power 1 on any operator, and every
\* power that is not equal to 0 on a ProjOp
PowOfSelf ==
    /\ last'.op = "pow"
    /\ \/ IsSubclass(heap[last'.a].cls, "ProjOp") /\ ~ IsZero(last'.arg)
       \/ ~ IsSubclass(heap[last'.a].cls, "ProjOp") /\ last'.arg = Power("int", 1)

C13_OperandsUnchanged ==
    [][\A r \in 1 .. Len(heap) : r \in 1 .. Len(heap') /\ heap'[r] = heap[r]]_vars

\* f * U has returned a product carrying a prox while f, a ProxFunc, is as
\* its constructor left it
C13_Witness ==
    /\ last.op = "mul" /\ Returned
    /\ heap[last.a].cls = "ProxFunc" /\ heap[last.b].cls = "UnitOp"
    /\ "prox" \in DOMAIN heap[last.ref].d
    /\ heap[last.a].d = InitDict("ProxFunc")

\* the shift vector of the last argshift call has the size of A's domain,
\* or A is domain-agnostic
ShiftFits ==
    heap[last.a].shape[2] = NoneDim \/ heap[last.a].shape[2] = last.arg.n

\* the kind the documentation of argshift gives the shifted operator
ShiftedKind(k) ==
    IF k = "LinFunc" THEN "DiffFunc" ELSE IF k = "LinOp" THEN "DiffMap" ELSE k

\* C14: argshift(A, v), for A of a base kind and a vector v, returns an
\* operator of shape (codomain of A, size of v) and of kind DiffFunc for a
\* LinFunc, DiffMap for a LinOp and the kind of A otherwise when the size
\* of v fits the domain of A, and raises ValueError when it does not.
C14_ArgshiftKind ==
    (last.op = "argshift" /\ last.arg.isArray /\ BaseOperand(last.a))
    => IF ShiftFits
       THEN /\ Returned
            /\ heap[last.ref].shape = <<heap[last.a].shape[1], last.arg.n>>
            /\ heap[last.ref].cls = ShiftedKind(heap[last.a].cls)
       ELSE last.exc = "ValueError"

\* the capabilities other than prox that argshift binds on its result
ShiftedCapabilities ==
    {c \in {"apply", "jacobian", "gradient"} :
        /\ c \in DOMAIN heap[last.ref].d
        /\ heap[last.ref].d[c].form = "argshifted_method"}

\* x + v, the shifted argument
Shifted(x) == Term("+", 0, "", <<x, Var("arr")>>)

\* C15: on the operator argshift(A, v) returns, every capability c among
\* apply, jacobian and gradient evaluates capability c of A at x + v,
\* single_valued is not bound to a shifted method, and the stored
\* _lipschitz and _diff_lipschitz are those of A.
C15_ArgshiftBindsOwnCapability ==
    (last.op = "argshift" /\ Returned)
    => ( /\ \A c \in ShiftedCapabilities :
               Invoke(heap, last.ref, c, <<Var("x")>>)
                 = Invoke(heap, last.a, c, <<Shifted(Var("x"))>>)
         /\ ~ ( /\ "single_valued" \in DOMAIN heap[last.ref].d
                /\ heap[last.ref].d["single_valued"].form = "argshifted_method" )
         /\ Stored(last.ref, "_lipschitz") = Stored(last.a, "_lipschitz")
         /\ "_diff_lipschitz" \in DOMAIN heap[last.a].d
            => Stored(last.ref, "_diff_lipschitz") = Stored(last.a, "_diff_lipschitz") )

\* C16: A + v and A * v, for A of a base kind and a value v that is not an
\* operator (for *, not a real number either), raise NotImplementedError.
C16_ForeignOperandNotImplemented ==
    (last.op \in {"add_foreign", "mul_foreign"} /\ heap[last.a].cls \in _base_operators)
    => last.exc = "NotImplementedError"

\* the outcome of the step is out: its exception, or the heap it leaves and
\* the reference it returns
StepYields(out) ==
    /\ last'.exc = out.exc
    /\ out.exc = "none" => (heap' = out.heap /\ last'.ref = out.ref)

\* the step is the call A ** power
PowStep == calls' = calls + 1 /\ last'.op = "pow"

\* the power rule: NotImplementedError for a power that is no int, the
\* identity operator of A's shape for 0, and for n >= 1 the operator left
\* by n - 1 applications of A * (previous result) starting from A
PowerRule ==
    IF last'.arg.type # "int" THEN last'.exc = "NotImplementedError"
    ELSE IF last'.arg.n = 0
    THEN StepYields(IdentityOperator(heap, heap[last'.a].shape))
    ELSE \E out \in PowLoop(heap, last'.a, last'.arg.n - 1) : StepYields(out)

\* C17 as stated: the power rule holds of A ** power for every operator A.
C17_PowerRule == [][PowStep => PowerRule]_vars

\* C17 amended: the power rule holds of A ** power for every operator A
\* that is not a ProjOp; for a ProjOp P, P ** power is the identity
\* operator of P's shape when power equals 0 (0.0 included) and P itself
\* for every other power, whatever its type.
C17_PowerRuleUnlessProjOp ==
    [][PowStep =>
         IF IsSubclass(heap[last'.a].cls, "ProjOp")
         THEN IF IsZero(last'.arg)
              THEN StepYields(IdentityOperator(heap, heap[last'.a].shape))
              ELSE StepYields(Ok(heap, last'.a))
         ELSE PowerRule]_vars

\* A ** 2, for A that is not a ProjOp, has returned the product A * A
C17_Witness ==
    /\ last.op = "pow" /\ Returned
    /\ last.arg = Power("int", 2)
    /\ ~ IsSubclass(heap[last.a].cls, "ProjOp")
    /\ heap[last.ref].d["apply"] = Closure("composite_apply", "apply", last.a, last.a)

\* C18: K.has(q) is True exactly when every name queried is among
\* K.properties(), for q a tuple of names and for q one name given as a str.
C18_HasIffSubset ==
    (last.op = "has")
    => ( last.arg.out
         <=> (IF last.arg.isStr THEN {last.arg.q} ELSE last.arg.q)
                \subseteq properties(last.arg.cls) )

\* C19: A + B and B + A, for A and B of base kinds and of sum-compatible
\* shapes, have the same outcome: the same error, or operators of the same
\* kind and shape.
C19_AddCommutes ==
    ( /\ last.op = "add"
      /\ heap[last.a].cls \in _base_operators
      /\ heap[last.b].cls \in _base_operators
      /\ SumCompatible(heap[last.a].shape, heap[last.b].shape) )
    => \A out \in AddOutcomes(heap, last.b, last.a) :
          /\ out.exc = last.exc
          /\ Returned => /\ out.heap[out.ref].cls = heap[last.ref].cls
                         /\ out.heap[out.ref].shape = heap[last.ref].shape

\* C20: specialize (and so squeeze) casting a DiffMap or a LinOp A to
\* DiffFunc or LinFunc binds on the result the gradient
\* x -> A.jacobian(x).asarray().reshape(-1).
C20_GradientFromJacobian ==
    ( /\ last.op \in {"specialize", "squeeze"}
      /\ Returned
      /\ last.ref # last.a
      /\ heap[last.a].cls \in {"DiffMap", "LinOp"}
      /\ heap[last.ref].cls \in {"DiffFunc", "LinFunc"} )
    => ( /\ "gradient" \in DOMAIN heap[last.ref].d
         /\ Invoke(heap, last.ref, "gradient", <<Var("x")>>)
              = Term("reshape", 0, "",
                     <<Term("asarray", 0, "",
                            <<Invoke(heap, last.a, "jacobian", <<Var("x")>>)>>)>>) )

\* C21: for every call A + B and every call A * B on two operators, the
\* capability set the call looks up (for +, the shared properties minus
\* prox; for *, the same plus gradient and single_valued when A has
\* codomain size 1 and jacobian is shared) equals the capability set of
\* exactly one of the seven base kinds: the scan stops on a match, whatever
\* its order.
C21_KindScanMatches ==
    /\ last.op = "add"
       => Cardinality(ScanMatches(AddSharedProps(heap, last.a, last.b))) = 1
    /\ last.op = "mul"
       => Cardinality(ScanMatches(MulSharedProps(heap, last.a, last.b))) = 1

\* a composition with a scalar-valued left factor sharing jacobian has
\* returned, on the kind the grant of gradient and single_valued resolves to
C21_Witness ==
    /\ last.op = "mul" /\ last.exc = "none" /\ last.ref # 0
    /\ heap[last.a].shape[1] = 1
    /\ "gradient" \in MulSharedProps(heap, last.a, last.b)
    /\ heap[last.ref].cls \in ScanMatches(MulSharedProps(heap, last.a, last.b))

\* the step is the call A.lipschitz(recompute=...)
LipStep == calls' = calls + 1 /\ last'.op = "lipschitz"

\* the Lipschitz estimate stored on A before the step
StoredBefore == Stored(last'.a, "_lipschitz")

\* C22: a lipschitz() call on a LinOp that is neither UnitOp nor OrthProjOp
\* invokes the SVD only with recompute=True or while the stored estimate is
\* +infinity; with a finite estimate stored and without recompute it
\* returns the stored value, leaves it as it is and performs no SVD.  On a
\* UnitOp and on an OrthProjOp it returns 1 and performs no SVD.
C22_LipschitzCached ==
    [][LipStep =>
         IF \/ IsSubclass(heap[last'.a].cls, "UnitOp")
            \/ IsSubclass(heap[last'.a].cls, "OrthProjOp")
         THEN /\ last'.exc = "none" /\ last'.arg.val = 1
              /\ ~ last'.arg.svd /\ heap' = heap
         ELSE /\ last'.arg.svd => (last'.arg.recompute \/ StoredBefore = Infty)
              /\ (StoredBefore # Infty /\ ~ last'.arg.recompute)
                 => /\ last'.exc = "none" /\ last'.arg.val = StoredBefore
                    /\ ~ last'.arg.svd /\ heap' = heap]_vars

\* a second call without recompute has returned the finite estimate the
\* first call computed and stored, without an SVD
C22_Witness ==
    /\ last.op = "lipschitz" /\ last.exc = "none" /\ calls = 2
    /\ heap[last.a].cls = "LinOp"
    /\ ~ last.arg.recompute /\ ~ last.arg.svd
    /\ last.arg.val = MaxSvd
    /\ GetAttr(heap, last.a, "_lipschitz").l = MaxSvd

\* C23: when a composition A * B has returned with a composite gradient
\* bound on its result, A has the gradient capability (its class defines
\* gradient or its instance carries one), so that the composite gradient
\* calls a gradient A has; A ranges over every operator the caller can
\* build, a DiffMap or a LinOp of codomain size 1 included.
C23_CompositeGradientHasLeftGradient ==
    ( /\ last.op = "mul" /\ Returned
      /\ "gradient" \in DOMAIN heap[last.ref].d
      /\ heap[last.ref].d["gradient"].form = "composite_gradient" )
    => /\ HasAttr(heap, last.a, "gradient")
       /\ Invoke(heap, last.ref, "gradient", <<Var("x")>>)
            = Term("adjoint", 0, "",
                   <<Invoke(heap, last.b, "jacobian", <<Var("x")>>),
                     Invoke(heap, heap[last.ref].d["gradient"].l, "gradient",
                            <<Invoke(heap, last.b, "apply", <<Var("x")>>)>>)>>)
       /\ Invoke(heap, last.a, "gradient", <<Var("y")>>).op # "AttributeError"

====
